---- MODULE Spec2Model ----
(***************************************************************************)
(* A model of photo.py, the lunar astrophotography session planner.        *)
(*                                                                         *)
(* Real numbers are exact rationals [num, den] with den > 0, so that the   *)
(* thresholds of the code (15, 30, 0.5, 2.8, ...) are compared exactly.    *)
(* The trigonometric terms of the ephemeris are drawn from the range of    *)
(* sin and cos, sampled on a grid: every value the code can compute lies   *)
(* between the extremes of the grid.                                       *)
(*                                                                         *)
(* Three specifications:                                                   *)
(*   Spec      the session planner and the preset table, with the          *)
(*             CameraConfig objects on a heap of references                *)
(*   SpecPure  the pure functions applied to inputs drawn by Init          *)
(*   SpecJD    julian_day applied along a walk over calendar timestamps    *)
(***************************************************************************)
EXTENDS Integers, Sequences, FiniteSets, TLC

VARIABLES
    \* ---- Spec: session planner -------------------------------------------
    PRESETS,    \* CameraPresets.PRESETS: SkyCondition -> reference
    heap,       \* reference -> CameraConfig (every live CameraConfig object)
    now,        \* the wall clock dt.datetime.now() reads, in minutes
    pc,         \* "idle", or the method that is executing
    frame,      \* the locals of the executing generate_sequence
    call,       \* the last invocation: method and arguments
    ret,        \* what the last invocation returned, or the exception it raised
    \* ---- SpecPure: pure functions ----------------------------------------
    input,      \* the function applied and its arguments
    output,     \* its result once applied
    applied,    \* whether the function has been applied
    \* ---- SpecJD: julian_day ----------------------------------------------
    ts,         \* the current timestamp (a calendar record)
    jd,         \* julian_day(ts), once computed
    prev,       \* the timestamp and Julian Day before the last step
    steps       \* how many steps the walk has taken

sessionVars == <<PRESETS, heap, now, pc, frame, call, ret>>
pureVars == <<input, output, applied>>
jdVars == <<ts, jd, prev, steps>>
vars == <<PRESETS, heap, now, pc, frame, call, ret, input, output, applied,
          ts, jd, prev, steps>>

-----------------------------------------------------------------------------
(* Bounds of the model. *)

\* elevations are sampled every 1/ElevDen of a degree
ElevDen == 10
\* phases given by a caller are k/PhaseSteps, k in 0..PhaseSteps
PhaseSteps == 4
\* sin(...) in lunar_position is sampled at k/SinSteps, k in -SinSteps..SinSteps
SinSteps == 1
\* cos(...) in lunar_phase is sampled at k/CosSteps, k in -CosSteps..CosSteps
CosSteps == 1
\* the clock runs from minute 0 to minute MaxClock
MaxClock == 1
\* duration_minutes given to generate_sequence ranges over -1..MaxDuration
MaxDuration == 3
\* duration_minutes given to export_session_data ranges over
\* -1..MaxExportDuration
MaxExportDuration == 6
\* interval_minutes ranges over -1..MaxInterval
MaxInterval == 2
\* a generate_sequence call is modelled when it yields at most MaxPlans plans
MaxPlans == 2
\* duration_hours given to calculate_interval is k/2, k in -1..MaxHalfHours
MaxHalfHours == 4
\* target_fps ranges over 0..MaxFps
MaxFps == 24
\* final_duration_seconds ranges over 0..MaxFinalSeconds
MaxFinalSeconds == 30
\* the calendar walk covers the years FirstYear..FirstYear+YearSpan
YearSpan == 1
\* the calendar walk takes at most MaxSteps steps
MaxSteps == 2

-----------------------------------------------------------------------------
(* Exact rationals. *)

Rat(n, d) == [num |-> n, den |-> d]
RatLt(a, b) == a.num * b.den < b.num * a.den
RatLe(a, b) == a.num * b.den <= b.num * a.den
RatEq(a, b) == a.num * b.den = b.num * a.den
RatAdd(a, b) == Rat(a.num * b.den + b.num * a.den, a.den * b.den)
RatMax(a, b) == IF RatLt(a, b) THEN b ELSE a
RatMin(a, b) == IF RatLt(b, a) THEN b ELSE a

\* round(x, digits) with 10^digits = scale: the nearest multiple of 1/scale,
\* ties to the even one, as an integer count of 1/scale
RoundTo(x, scale) ==
    LET n == x.num * scale
        q == n \div x.den
        r2 == 2 * (n % x.den)
    IN  IF r2 < x.den THEN q
        ELSE IF r2 > x.den THEN q + 1
        ELSE IF q % 2 = 0 THEN q ELSE q + 1

-----------------------------------------------------------------------------
(* Enums and data classes. *)

SkyCondition == {"clear", "atmospheric", "low_horizon", "deep_sky"}

\* CameraConfig(iso, f_stop, shutter, focal_length); f_stop is in tenths
CameraConfig(iso, f_stop, shutter, focal_length) ==
    [iso |-> iso, f_stop |-> f_stop, shutter |-> shutter,
     focal_length |-> focal_length, focus |-> "infinity"]

\* condition with the first boundary included in the lower class
condition_inclusive(elevation) ==
    IF RatLe(elevation, Rat(15, 1)) THEN "low_horizon"
    ELSE IF RatLt(elevation, Rat(30, 1)) THEN "atmospheric"
    ELSE "clear"

\* CelestialData.condition
condition(elevation) ==
    IF RatLt(elevation, Rat(15, 1)) THEN "low_horizon"
    ELSE IF RatLt(elevation, Rat(30, 1)) THEN "atmospheric"
    ELSE "clear"

-----------------------------------------------------------------------------
(* AstronomyCalculator. *)

\* a Julian Day as days + secs/86400 with 0 <= secs < 86400: the exact value
\* of the sum jdn + fraction
DayCount(jdn, fraction_secs) ==
    [days |-> jdn + (fraction_secs \div 86400), secs |-> fraction_secs % 86400]

\* (hour - 12)/24 + minute/1440 + second/86400, in seconds
Fraction(timestamp) ==
    (timestamp.hour - 12) * 3600 + timestamp.minute * 60 + timestamp.second

\* julian_day without the shift of January and February to the year before
julian_day_no_month_shift(timestamp) ==
    LET y == timestamp.year + 4800
        m == timestamp.month - 3
        jdn == timestamp.day + ((153 * m + 2) \div 5) + 365 * y
               + (y \div 4) - (y \div 100) + (y \div 400) - 32045
    IN  DayCount(jdn, Fraction(timestamp))

julian_day(timestamp) ==
    LET a == (14 - timestamp.month) \div 12
        y == timestamp.year + 4800 - a
        m == timestamp.month + 12 * a - 3
        jdn == timestamp.day + ((153 * m + 2) \div 5) + 365 * y
               + (y \div 4) - (y \div 100) + (y \div 400) - 32045
    IN  DayCount(jdn, Fraction(timestamp))

\* lunar_position with the amplitude 51.28 in place of 5.128
lunar_position_wide(sin_lat) ==
    LET lat_ecl == Rat(5128 * sin_lat.num, 100 * sin_lat.den)
    IN  RatMax(Rat(-90, 1), RatMin(Rat(90, 1), RatAdd(lat_ecl, Rat(30, 1))))

\* lunar_position's elevation; sin_lat is the value of
\* sin(radians(93.272 + 13.229350 * d)), the only term elevation depends on.
\* The azimuth decides nothing downstream and is left out.
lunar_position(sin_lat) ==
    LET lat_ecl == Rat(5128 * sin_lat.num, 1000 * sin_lat.den)
    IN  RatMax(Rat(-90, 1), RatMin(Rat(90, 1), RatAdd(lat_ecl, Rat(30, 1))))

\* lunar_phase; cos_angle is the value of cos(L - S)
lunar_phase(cos_angle) == Rat(cos_angle.den + cos_angle.num, 2 * cos_angle.den)

-----------------------------------------------------------------------------
(* ExposureCalculator. *)

atmospheric_compensation(elevation) ==
    IF RatLt(elevation, Rat(10, 1)) THEN Rat(2, 1)
    ELSE IF RatLt(elevation, Rat(20, 1)) THEN Rat(1, 1)
    ELSE IF RatLt(elevation, Rat(30, 1)) THEN Rat(1, 2)
    ELSE Rat(0, 1)

\* -2.5 * phase + 1.5
phase_compensation(phase) == Rat(3 * phase.den - 5 * phase.num, 2 * phase.den)

\* total_compensation clamped to the +/-3 EV of a camera's dial
total_compensation_clamped(celestial_data) ==
    RatMax(Rat(-3, 1), RatMin(Rat(3, 1),
        RatAdd(atmospheric_compensation(celestial_data.position.elevation),
               phase_compensation(celestial_data.phase))))

total_compensation(celestial_data) ==
    RatAdd(atmospheric_compensation(celestial_data.position.elevation),
           phase_compensation(celestial_data.phase))

-----------------------------------------------------------------------------
(* TimelapseCalculator. *)

\* The result dictionary, its rounded fields in tenths; the division by
\* target_frames raises ZeroDivisionError when target_frames is 0.
calculate_interval(duration_hours, target_fps, final_duration_seconds) ==
    LET total_seconds == Rat(duration_hours.num * 3600, duration_hours.den)
        target_frames == target_fps * final_duration_seconds
        storage_gb == Rat(target_frames * 25, 1024)
        battery_hours == Rat(duration_hours.num * 3, duration_hours.den * 4)
    IN  IF target_frames = 0
        THEN [outcome |-> "ZeroDivisionError", interval_seconds |-> 0,
              total_frames |-> 0, storage_gb |-> 0, battery_hours |-> 0,
              playback_fps |-> 0]
        ELSE [outcome |-> "ok",
              interval_seconds |->
                  RoundTo(Rat(total_seconds.num, total_seconds.den * target_frames), 10),
              total_frames |-> target_frames,
              storage_gb |-> RoundTo(storage_gb, 10),
              battery_hours |-> RoundTo(battery_hours, 10),
              playback_fps |-> target_fps]

-----------------------------------------------------------------------------
(* Idle values of the three groups of variables: a specification that does *)
(* not use a group leaves it at these.                                     *)

NoFrame ==
    [duration_minutes |-> 0, interval_minutes |-> 0, start_time |-> 0,
     i |-> 0, sequence |-> <<>>, caller |-> ""]

\* config_value is the value of the config argument when the call was made
NoCall ==
    [op |-> "", condition |-> "", config |-> <<>>, config_value |-> <<>>,
     phase |-> <<>>, timestamp |-> 0, duration_minutes |-> 0,
     interval_minutes |-> 0, start_time |-> 0]

\* config, data and export hold at most one value; error names the exception
NoRet == [kind |-> "none", config |-> <<>>, data |-> <<>>, plans |-> <<>>,
          export |-> <<>>, error |-> ""]

NoInput ==
    [fn |-> "", elevation |-> Rat(0, 1), phase |-> Rat(0, 1),
     duration_hours |-> Rat(0, 1), target_fps |-> 0,
     final_duration_seconds |-> 0]

NoTimestamp ==
    [year |-> 0, month |-> 0, day |-> 0, hour |-> 0, minute |-> 0, second |-> 0]

PureIdle == input = NoInput /\ output = <<>> /\ applied = FALSE

JDIdle == ts = NoTimestamp /\ jd = <<>> /\ prev = <<>> /\ steps = 0

-----------------------------------------------------------------------------
(* SpecPure: Init draws a function and its arguments, one action applies   *)
(* each function.                                                          *)

Elevations == {Rat(k, ElevDen) : k \in (-90 * ElevDen)..(90 * ElevDen)}

Phases == {Rat(k, PhaseSteps) : k \in 0..PhaseSteps}

DurationHours == {Rat(k, 2) : k \in -1..MaxHalfHours}

ElevationInput(fn, elevation) == [NoInput EXCEPT !.fn = fn, !.elevation = elevation]

PureInit ==
    /\ \/ \E e \in Elevations :
            input \in {ElevationInput("condition", e),
                       ElevationInput("atmospheric_compensation", e)}
       \/ \E p \in Phases :
            input = [NoInput EXCEPT !.fn = "phase_compensation", !.phase = p]
       \/ \E e \in Elevations, p \in Phases :
            input = [NoInput EXCEPT !.fn = "total_compensation",
                                    !.elevation = e, !.phase = p]
       \/ \E h \in DurationHours, fps \in 0..MaxFps, secs \in 0..MaxFinalSeconds :
            input = [NoInput EXCEPT !.fn = "calculate_interval",
                                    !.duration_hours = h, !.target_fps = fps,
                                    !.final_duration_seconds = secs]
    /\ output = <<>>
    /\ applied = FALSE

Apply(fn, result) ==
    /\ ~applied
    /\ input.fn = fn
    /\ output' = result
    /\ applied' = TRUE
    /\ UNCHANGED <<input, sessionVars, jdVars>>

Condition == Apply("condition", condition(input.elevation))

AtmosphericCompensation ==
    Apply("atmospheric_compensation", atmospheric_compensation(input.elevation))

PhaseCompensation == Apply("phase_compensation", phase_compensation(input.phase))

\* total_compensation reads position.elevation and phase of a CelestialData
TotalCompensation ==
    Apply("total_compensation",
          total_compensation([position |-> [elevation |-> input.elevation],
                              phase |-> input.phase]))

CalculateInterval ==
    Apply("calculate_interval",
          calculate_interval(input.duration_hours, input.target_fps,
                             input.final_duration_seconds))

PureNext ==
    \/ Condition
    \/ AtmosphericCompensation
    \/ PhaseCompensation
    \/ TotalCompensation
    \/ CalculateInterval

-----------------------------------------------------------------------------
(* SpecJD: a walk over calendar timestamps, julian_day applied at each.    *)

FirstYear == 1999

\* 1900 and 2100 are century years that are not leap years
Years == (FirstYear..(FirstYear + YearSpan)) \cup {1900, 2100}

IsLeap(y) == (y % 4 = 0 /\ y % 100 # 0) \/ y % 400 = 0

DaysInMonth(y, m) ==
    IF m = 2 THEN (IF IsLeap(y) THEN 29 ELSE 28)
    ELSE IF m \in {4, 6, 9, 11} THEN 30 ELSE 31

Timestamp(y, mo, d, h, mi, s) ==
    [year |-> y, month |-> mo, day |-> d, hour |-> h, minute |-> mi, second |-> s]

\* the first day and the last two days of every month, at the times of
\* day around midnight and noon
Timestamps ==
    {t \in {Timestamp(y, mo, d, tod[1], tod[2], tod[3]) :
                y \in Years, mo \in 1..12, d \in {1, 27, 28, 29, 30, 31},
                tod \in {<<0, 0, 0>>, <<11, 59, 59>>, <<12, 0, 0>>, <<23, 59, 59>>}} :
        t.day = 1 \/ t.day \in {DaysInMonth(t.year, t.month) - 1,
                                DaysInMonth(t.year, t.month)}}

\* the day after a calendar date
NextDate(t) ==
    IF t.day < DaysInMonth(t.year, t.month) THEN [t EXCEPT !.day = t.day + 1]
    ELSE IF t.month < 12 THEN [t EXCEPT !.month = t.month + 1, !.day = 1]
    ELSE [t EXCEPT !.year = t.year + 1, !.month = 1, !.day = 1]

\* timestamp + dt.timedelta(seconds=delta), for 0 <= delta <= 86400
AddSeconds(t, delta) ==
    LET total == t.hour * 3600 + t.minute * 60 + t.second + delta
        rem == total % 86400
        at == [t EXCEPT !.hour = rem \div 3600, !.minute = (rem % 3600) \div 60,
                        !.second = rem % 60]
    IN  IF total >= 86400 THEN NextDate(at) ELSE at

\* the order of datetime values
DateKey(t) == (t.year * 12 + t.month) * 31 + t.day
TimeKey(t) == (t.hour * 60 + t.minute) * 60 + t.second
TsLess(a, b) ==
    \/ DateKey(a) < DateKey(b)
    \/ DateKey(a) = DateKey(b) /\ TimeKey(a) < TimeKey(b)

\* a second, an hour, 24 hours
Deltas == {1, 3600, 86400}

JDInit ==
    /\ ts \in Timestamps
    /\ jd = <<>>
    /\ prev = <<>>
    /\ steps = 0

JulianDay ==
    /\ jd = <<>>
    /\ jd' = <<julian_day(ts)>>
    /\ UNCHANGED <<ts, prev, steps, sessionVars, pureVars>>

\* julian_day(ts + delta) after julian_day(ts)
Advance ==
    /\ jd # <<>>
    /\ steps < MaxSteps
    /\ \E delta \in Deltas :
        /\ prev' = <<[ts |-> ts, jd |-> jd[1], delta |-> delta]>>
        /\ ts' = AddSeconds(ts, delta)
        /\ jd' = <<julian_day(AddSeconds(ts, delta))>>
    /\ steps' = steps + 1
    /\ UNCHANGED <<sessionVars, pureVars>>

\* julian_day(later) after julian_day(ts), for any later timestamp; the walk
\* ends there
Later ==
    /\ jd # <<>>
    /\ steps = 0
    /\ \E later \in Timestamps :
        /\ TsLess(ts, later)
        /\ prev' = <<[ts |-> ts, jd |-> jd[1], delta |-> 0]>>
        /\ ts' = later
        /\ jd' = <<julian_day(later)>>
    /\ steps' = MaxSteps
    /\ UNCHANGED <<sessionVars, pureVars>>

JDNext == JulianDay \/ Advance \/ Later

-----------------------------------------------------------------------------
(* CameraPresets, on a heap of CameraConfig objects.                       *)

IsoCap == 3200
\* the floor 2.8 of f_stop, in tenths
FStopFloor == 28

PresetValues ==
    [c \in SkyCondition |->
        CASE c = "clear"       -> CameraConfig(200, 80, Rat(1, 125), 300)
          [] c = "atmospheric" -> CameraConfig(400, 56, Rat(1, 200), 250)
          [] c = "low_horizon" -> CameraConfig(800, 40, Rat(1, 160), 400)
          [] c = "deep_sky"    -> CameraConfig(1600, 28, Rat(30, 1), 50)]

PresetRefs ==
    [c \in SkyCondition |->
        CASE c = "clear" -> 1 [] c = "atmospheric" -> 2
          [] c = "low_horizon" -> 3 [] c = "deep_sky" -> 4]

Min(a, b) == IF a < b THEN a ELSE b
Max(a, b) == IF a > b THEN a ELSE b

\* CameraConfig(...): a new object at the first free reference
New(h, obj) ==
    LET ref == CHOOSE r \in 1..(Cardinality(DOMAIN h) + 1) :
                   r \notin DOMAIN h /\ \A q \in 1..(r - 1) : q \in DOMAIN h
    IN  [heap |-> h @@ (ref :> obj), ref |-> ref]

get_config(presets, cond) == presets[cond]

\* 0.3 + (0.7 * phase)
BrightnessFactor(phase) == Rat(3 * phase.den + 7 * phase.num, 10 * phase.den)

\* adjust_for_phase without the cap on the doubled ISO
adjust_for_phase_uncapped(h, config, phase) ==
    LET dim == RatLt(BrightnessFactor(phase), Rat(1, 2))
        new_iso == IF dim THEN h[config].iso * 2 ELSE h[config].iso
        new_f_stop == IF dim THEN Max(FStopFloor, h[config].f_stop - 10)
                      ELSE h[config].f_stop
    IN  New(h, CameraConfig(new_iso, new_f_stop, h[config].shutter,
                            h[config].focal_length))

\* adjust_for_phase that doubles the ISO and leaves the aperture
adjust_for_phase_fixed_aperture(h, config, phase) ==
    LET dim == RatLt(BrightnessFactor(phase), Rat(1, 2))
        new_iso == IF dim THEN Min(IsoCap, h[config].iso * 2) ELSE h[config].iso
    IN  New(h, CameraConfig(new_iso, h[config].f_stop, h[config].shutter,
                            h[config].focal_length))

\* adjust_for_phase that returns its argument when it changes no field
adjust_for_phase_same_instance(h, config, phase) ==
    LET dim == RatLt(BrightnessFactor(phase), Rat(1, 2))
    IN  IF dim
        THEN New(h, CameraConfig(Min(IsoCap, h[config].iso * 2),
                                 Max(FStopFloor, h[config].f_stop - 10),
                                 h[config].shutter, h[config].focal_length))
        ELSE [heap |-> h, ref |-> config]

adjust_for_phase(h, config, phase) ==
    LET dim == RatLt(BrightnessFactor(phase), Rat(1, 2))
        new_iso == IF dim THEN Min(IsoCap, h[config].iso * 2) ELSE h[config].iso
        new_f_stop == IF dim THEN Max(FStopFloor, h[config].f_stop - 10)
                      ELSE h[config].f_stop
    IN  New(h, CameraConfig(new_iso, new_f_stop, h[config].shutter,
                            h[config].focal_length))

-----------------------------------------------------------------------------
(* AstroSession. *)

DefaultInterval == 5
DefaultFps == 24
DefaultFinalSeconds == 30

\* the values of the two trigonometric terms at one timestamp
Skies ==
    {[sin_lat |-> Rat(a, SinSteps), cos_angle |-> Rat(b, CosSteps)] :
        a \in (-SinSteps)..SinSteps, b \in (-CosSteps)..CosSteps}

get_lunar_data(sky) ==
    LET elevation == lunar_position(sky.sin_lat)
        phase == lunar_phase(sky.cos_angle)
    IN  [position |-> [elevation |-> elevation],
         phase |-> phase,
         distance_km |-> 384400,
         angular_size_arcmin |-> Rat(311, 10),
         magnitude |-> Rat(-127 * phase.num - 25 * phase.den, 10 * phase.den)]

create_shooting_plan(presets, h, timestamp, sky) ==
    LET lunar_data == get_lunar_data(sky)
        base_config == get_config(presets, condition(lunar_data.position.elevation))
        adjusted == adjust_for_phase(h, base_config, lunar_data.phase)
    IN  [heap |-> adjusted.heap,
         plan |-> [timestamp |-> timestamp,
                   celestial_data |-> lunar_data,
                   camera_config |-> adjusted.ref,
                   exposure_comp |-> total_compensation(lunar_data)]]

\* a range that includes its stop
InRange_inclusive(i, stop, step) == IF step > 0 THEN i <= stop ELSE i >= stop

\* whether range(0, stop, step), step # 0, yields i
InRange(i, stop, step) == IF step > 0 THEN i < stop ELSE i > stop

\* len(range(0, stop, step))
RangeLen(stop, step) ==
    IF step > 0 /\ stop > 0 THEN (stop + step - 1) \div step
    ELSE IF step < 0 /\ stop < 0 THEN (-stop - step - 1) \div (-step)
    ELSE 0

\* ShootingPlan.to_dict: time is the minute of the day, the rounded fields
\* are in tenths (elevation, exposure_comp) and hundredths (phase)
to_dict(h, plan) ==
    [time |-> plan.timestamp % 1440,
     elevation |-> RoundTo(plan.celestial_data.position.elevation, 10),
     phase |-> RoundTo(plan.celestial_data.phase, 100),
     iso |-> h[plan.camera_config].iso,
     f_stop |-> h[plan.camera_config].f_stop,
     shutter |-> h[plan.camera_config].shutter,
     focal_length |-> h[plan.camera_config].focal_length,
     exposure_comp |-> RoundTo(plan.exposure_comp, 10)]

ElevationsOf(sequence) ==
    {sequence[k].celestial_data.position.elevation : k \in 1..Len(sequence)}

MinOf(S) == CHOOSE x \in S : \A y \in S : RatLe(x, y)
MaxOf(S) == CHOOSE x \in S : \A y \in S : RatLe(y, x)

\* the "summary" of export_session_data, of a sequence that is not empty;
\* elevation_range holds the two numbers the string shows, in tenths
Summary(sequence) ==
    [total_positions |-> Len(sequence),
     elevation_range |-> <<RoundTo(MinOf(ElevationsOf(sequence)), 10),
                           RoundTo(MaxOf(ElevationsOf(sequence)), 10)>>,
     optimal_shots |->
        Cardinality({k \in 1..Len(sequence) :
            RatLt(Rat(30, 1), sequence[k].celestial_data.position.elevation)})]

\* the references the caller and the executing method hold
Refs(presets, fr, rt) ==
    {presets[c] : c \in DOMAIN presets}
    \cup {rt.config[k] : k \in 1..Len(rt.config)}
    \cup {rt.plans[k].camera_config : k \in 1..Len(rt.plans)}
    \cup {fr.sequence[k].camera_config : k \in 1..Len(fr.sequence)}

\* an object nothing refers to is freed
Collect(h, live) == [r \in (DOMAIN h \cap live) |-> h[r]]

-----------------------------------------------------------------------------
(* Spec: the calls a user of the module makes, and the clock.              *)

Durations == -1..MaxDuration
ExportDurations == -1..MaxExportDuration
Intervals == -1..MaxInterval

SessionInit ==
    /\ PRESETS = PresetRefs
    /\ heap = [r \in 1..4 |->
                 PresetValues[CHOOSE c \in SkyCondition : PresetRefs[c] = r]]
    /\ now = 0
    /\ pc = "idle"
    /\ frame = NoFrame
    /\ call = NoCall
    /\ ret = NoRet

\* the method leaves h as the heap, fr as the frame and rt as the result
Leave(h, fr, rt) ==
    /\ heap' = Collect(h, Refs(PRESETS, fr, rt))
    /\ frame' = fr
    /\ ret' = rt
    /\ UNCHANGED <<PRESETS, pureVars, jdVars>>

Raise(error) == [NoRet EXCEPT !.kind = "error", !.error = error]

\* the configs a caller passes on to adjust_for_phase: the one get_config or
\* adjust_for_phase returned, or that of the plan create_shooting_plan returned
HeldConfigs(rt) ==
    {rt.config[k] : k \in 1..Len(rt.config)}
    \cup (IF rt.kind = "plan" THEN {rt.plans[1].camera_config} ELSE {})

\* the caller lets go of the last result
Discard ==
    /\ pc = "idle"
    /\ ret # NoRet
    /\ call' = NoCall
    /\ Leave(heap, frame, NoRet)
    /\ UNCHANGED <<now, pc>>

\* time passes
Tick ==
    /\ now < MaxClock
    /\ now' = now + 1
    /\ UNCHANGED <<PRESETS, heap, pc, frame, call, ret, pureVars, jdVars>>

GetConfig ==
    /\ pc = "idle"
    /\ ret = NoRet
    /\ \E c \in SkyCondition :
        /\ call' = [NoCall EXCEPT !.op = "get_config", !.condition = c]
        /\ Leave(heap, frame, [NoRet EXCEPT !.kind = "config",
                                            !.config = <<get_config(PRESETS, c)>>])
    /\ UNCHANGED <<now, pc>>

AdjustForPhase ==
    /\ pc = "idle"
    /\ \E config \in HeldConfigs(ret), phase \in Phases :
        LET adjusted == adjust_for_phase(heap, config, phase)
        IN  /\ call' = [NoCall EXCEPT !.op = "adjust_for_phase",
                                      !.config = <<config>>,
                                      !.config_value = <<heap[config]>>,
                                      !.phase = <<phase>>]
            /\ Leave(adjusted.heap, frame,
                     [NoRet EXCEPT !.kind = "config", !.config = <<adjusted.ref>>])
    /\ UNCHANGED <<now, pc>>

GetLunarData ==
    /\ pc = "idle"
    /\ ret = NoRet
    /\ \E timestamp \in 0..MaxClock, sky \in Skies :
        /\ call' = [NoCall EXCEPT !.op = "get_lunar_data", !.timestamp = timestamp]
        /\ Leave(heap, frame, [NoRet EXCEPT !.kind = "data",
                                            !.data = <<get_lunar_data(sky)>>])
    /\ UNCHANGED <<now, pc>>

CreateShootingPlan ==
    /\ pc = "idle"
    /\ ret = NoRet
    /\ \E timestamp \in 0..MaxClock, sky \in Skies :
        LET made == create_shooting_plan(PRESETS, heap, timestamp, sky)
        IN  /\ call' = [NoCall EXCEPT !.op = "create_shooting_plan",
                                      !.timestamp = timestamp]
            /\ Leave(made.heap, frame,
                     [NoRet EXCEPT !.kind = "plan", !.plans = <<made.plan>>])
    /\ UNCHANGED <<now, pc>>

\* sequence = []; start_time = dt.datetime.now()
Enter(op, duration_minutes, interval_minutes) ==
    /\ pc = "idle"
    /\ ret = NoRet
    /\ RangeLen(duration_minutes, interval_minutes) <= MaxPlans
    /\ pc' = "generate_sequence"
    /\ call' = [NoCall EXCEPT !.op = op,
                              !.duration_minutes = duration_minutes,
                              !.interval_minutes = interval_minutes,
                              !.start_time = now]
    /\ Leave(heap,
             [duration_minutes |-> duration_minutes,
              interval_minutes |-> interval_minutes,
              start_time |-> now, i |-> 0, sequence |-> <<>>, caller |-> op],
             NoRet)
    /\ UNCHANGED now

GenerateSequence ==
    \E duration_minutes \in Durations, interval_minutes \in Intervals :
        Enter("generate_sequence", duration_minutes, interval_minutes)

\* sequence = self.generate_sequence(duration_minutes)
ExportSessionData ==
    \E duration_minutes \in ExportDurations :
        Enter("export_session_data", duration_minutes, DefaultInterval)

\* range(0, duration_minutes, 0) raises ValueError
RangeError ==
    /\ pc = "generate_sequence"
    /\ frame.interval_minutes = 0
    /\ pc' = "idle"
    /\ Leave(heap, NoFrame, Raise("ValueError"))
    /\ UNCHANGED <<now, call>>

\* one iteration of the loop
Iterate ==
    /\ pc = "generate_sequence"
    /\ frame.interval_minutes # 0
    /\ InRange(frame.i, frame.duration_minutes, frame.interval_minutes)
    /\ \E sky \in Skies :
        LET timestamp == frame.start_time + frame.i
            made == create_shooting_plan(PRESETS, heap, timestamp, sky)
        IN  Leave(made.heap,
                  [frame EXCEPT !.sequence = Append(frame.sequence, made.plan),
                                !.i = frame.i + frame.interval_minutes],
                  ret)
    /\ UNCHANGED <<now, pc, call>>

\* return sequence, to the caller or to export_session_data
Return ==
    /\ pc = "generate_sequence"
    /\ frame.interval_minutes # 0
    /\ ~InRange(frame.i, frame.duration_minutes, frame.interval_minutes)
    /\ IF frame.caller = "export_session_data"
       THEN /\ pc' = "export_session_data"
            /\ Leave(heap, frame, ret)
       ELSE /\ pc' = "idle"
            /\ Leave(heap, NoFrame,
                     [NoRet EXCEPT !.kind = "sequence", !.plans = frame.sequence])
    /\ UNCHANGED <<now, call>>

\* the rest of export_session_data: the timelapse settings, then the record;
\* min() of an empty sequence raises ValueError
ExportRecord ==
    /\ pc = "export_session_data"
    /\ pc' = "idle"
    /\ LET timelapse == calculate_interval(Rat(frame.duration_minutes, 60),
                                           DefaultFps, DefaultFinalSeconds)
       IN  IF timelapse.outcome # "ok"
           THEN Leave(heap, NoFrame, Raise(timelapse.outcome))
           ELSE IF frame.sequence = <<>>
           THEN Leave(heap, NoFrame, Raise("ValueError"))
           ELSE Leave(heap, NoFrame,
                      [NoRet EXCEPT
                          !.kind = "export",
                          !.export = <<[
                              start_time |-> now,
                              duration_minutes |-> frame.duration_minutes,
                              shooting_sequence |->
                                  [k \in 1..Len(frame.sequence) |->
                                      to_dict(heap, frame.sequence[k])],
                              timelapse_settings |-> timelapse,
                              summary |-> Summary(frame.sequence)]>>])
    /\ UNCHANGED <<now, call>>

Next ==
    \/ Tick
    \/ Discard
    \/ GetConfig
    \/ AdjustForPhase
    \/ GetLunarData
    \/ CreateShootingPlan
    \/ GenerateSequence
    \/ ExportSessionData
    \/ RangeError
    \/ Iterate
    \/ Return
    \/ ExportRecord

Init == SessionInit /\ PureIdle /\ JDIdle

Spec == Init /\ [][Next]_vars

InitPure == PureInit /\ SessionInit /\ JDIdle

SpecPure == InitPure /\ [][PureNext]_vars

InitJD == JDInit /\ SessionInit /\ PureIdle

SpecJD == InitJD /\ [][JDNext]_vars

-----------------------------------------------------------------------------
(* Properties of the pure functions, under SpecPure.                       *)

Ran(fn) == applied /\ input.fn = fn

\* C2: calculate_interval with target_fps * final_duration_seconds = 0 fails
\* with an explicit "invalid timelapse parameters" condition and returns no
\* result.
C2_InvalidTimelapseParameters ==
    (Ran("calculate_interval")
        /\ input.target_fps * input.final_duration_seconds = 0)
    => output.outcome = "invalid timelapse parameters"

\* what the code does in the case of C2: the division raises
C2_ZeroDivisionError ==
    /\ Ran("calculate_interval")
    /\ input.target_fps = 0
    /\ input.final_duration_seconds = 30
    /\ output.outcome = "ZeroDivisionError"

\* C4: condition is LowHorizon below 15 degrees, Atmospheric from 15 up to
\* but not including 30, Clear from 30 on, and never DeepSky; 14.9 gives
\* LowHorizon, 15.0 and 29.9 Atmospheric, 30.0 Clear.
C4_Condition ==
    Ran("condition") =>
        LET e == input.elevation
        IN  /\ RatLt(e, Rat(15, 1)) => output = "low_horizon"
            /\ (RatLe(Rat(15, 1), e) /\ RatLt(e, Rat(30, 1))) => output = "atmospheric"
            /\ RatLe(Rat(30, 1), e) => output = "clear"
            /\ output # "deep_sky"
            /\ RatEq(e, Rat(149, 10)) => output = "low_horizon"
            /\ RatEq(e, Rat(150, 10)) => output = "atmospheric"
            /\ RatEq(e, Rat(299, 10)) => output = "atmospheric"
            /\ RatEq(e, Rat(300, 10)) => output = "clear"

\* the classifier applied at the boundary 15.0
C4_Witness ==
    /\ Ran("condition")
    /\ RatEq(input.elevation, Rat(15, 1))
    /\ output = "atmospheric"

\* C7: atmospheric_compensation is the step function 2.0, 1.0, 0.5, 0.0 with
\* steps at 10, 20 and 30 degrees and does not increase with the elevation;
\* phase_compensation is -2.5 * phase + 1.5, from 1.5 at phase 0 to -1.0 at
\* phase 1; total_compensation is their sum, not clamped: 3.5 at elevation 5
\* and phase 0.
C7_Compensation ==
    LET e == input.elevation
        p == input.phase
        step == IF RatLt(e, Rat(10, 1)) THEN Rat(20, 10)
                ELSE IF RatLt(e, Rat(20, 1)) THEN Rat(10, 10)
                ELSE IF RatLt(e, Rat(30, 1)) THEN Rat(5, 10)
                ELSE Rat(0, 10)
        linear == Rat(15 * p.den - 25 * p.num, 10 * p.den)
    IN  /\ Ran("atmospheric_compensation") =>
            /\ RatEq(output, step)
            /\ \A higher \in Elevations :
                RatLe(e, higher) => RatLe(atmospheric_compensation(higher), output)
        /\ Ran("phase_compensation") =>
            /\ RatEq(output, linear)
            /\ p.num = 0 => RatEq(output, Rat(15, 10))
            /\ p.num = p.den => RatEq(output, Rat(-1, 1))
        /\ Ran("total_compensation") =>
            /\ RatEq(output, RatAdd(step, linear))
            /\ (RatEq(e, Rat(5, 1)) /\ p.num = 0) => RatEq(output, Rat(35, 10))

\* total_compensation applied at elevation 5 and phase 0
C7_Witness ==
    /\ Ran("total_compensation")
    /\ RatEq(input.elevation, Rat(5, 1))
    /\ input.phase.num = 0
    /\ RatEq(output, Rat(35, 10))

-----------------------------------------------------------------------------
(* Properties of julian_day, under SpecJD.                                 *)

JdLess(a, b) == a.days < b.days \/ (a.days = b.days /\ a.secs < b.secs)

\* C9: julian_day(t + 24 hours) = julian_day(t) + 1 across the boundaries of
\* months, years and leap days; julian_day is strictly increasing in t; at
\* 12:00:00 its fractional part is 0, and 2000-01-01 12:00:00 gives 2451545.
C9_JulianDay ==
    /\ prev # <<>> =>
        /\ prev[1].delta = 86400 =>
            /\ jd[1].days = prev[1].jd.days + 1
            /\ jd[1].secs = prev[1].jd.secs
        /\ TsLess(prev[1].ts, ts) => JdLess(prev[1].jd, jd[1])
    /\ (jd # <<>> /\ ts.hour = 12 /\ ts.minute = 0 /\ ts.second = 0) =>
        /\ jd[1].secs = 0
        /\ ts = Timestamp(2000, 1, 1, 12, 0, 0) => jd[1].days = 2451545

\* 24 hours added on the day before a leap day
C9_Witness ==
    /\ prev # <<>>
    /\ prev[1].delta = 86400
    /\ prev[1].ts = Timestamp(2000, 2, 28, 23, 59, 59)
    /\ ts = Timestamp(2000, 2, 29, 23, 59, 59)
    /\ jd[1].days = prev[1].jd.days + 1

-----------------------------------------------------------------------------
(* Properties of the session planner and the preset table, under Spec.     *)

\* every ShootingPlan that exists: returned, or in the sequence being built
Plans ==
    {ret.plans[k] : k \in 1..Len(ret.plans)}
    \cup {frame.sequence[k] : k \in 1..Len(frame.sequence)}

Returned(op) == pc = "idle" /\ call.op = op

Dim(phase) == RatLt(RatAdd(Rat(3, 10), Rat(7 * phase.num, 10 * phase.den)), Rat(1, 2))

\* C1: generate_sequence with positive duration and interval returns
\* ceil(duration/interval) plans at start, start + interval, ..., where start
\* is the clock read once on entry, all before start + duration and strictly
\* ascending.
C1_Sequence ==
    (Returned("generate_sequence") /\ call.duration_minutes > 0
        /\ call.interval_minutes > 0) =>
        LET n == Len(ret.plans)
            d == call.duration_minutes
            i == call.interval_minutes
        IN  /\ ret.kind = "sequence"
            /\ n * i >= d
            /\ (n - 1) * i < d
            /\ \A k \in 1..n :
                /\ ret.plans[k].timestamp = call.start_time + (k - 1) * i
                /\ ret.plans[k].timestamp < call.start_time + d
            /\ \A k \in 1..(n - 1) :
                ret.plans[k].timestamp < ret.plans[k + 1].timestamp

\* two plans from a duration the interval does not divide, the clock having
\* moved before the call
C1_Witness ==
    /\ Returned("generate_sequence")
    /\ call.duration_minutes = 3
    /\ call.interval_minutes = 2
    /\ call.start_time = 1
    /\ Len(ret.plans) = 2
    /\ ret.plans[2].timestamp = 3

\* C3: every CameraConfig obtained from a preset by adjust_for_phase, applied
\* any number of times, has iso <= 3200 and f_stop >= 2.8; the DeepSky preset
\* (ISO 1600) adjusted with a dim phase gives ISO 3200, and adjusted again
\* still 3200.
C3_IsoCapFStopFloor ==
    /\ \A r \in DOMAIN heap : heap[r].iso <= 3200 /\ heap[r].f_stop >= 28
    /\ (Returned("adjust_for_phase") /\ Dim(call.phase[1])
            /\ call.config_value[1].focal_length = 50) =>
        heap[ret.config[1]].iso = 3200

\* the second dim adjustment of the DeepSky preset
C3_Witness ==
    /\ Returned("adjust_for_phase")
    /\ Dim(call.phase[1])
    /\ call.config_value[1].focal_length = 50
    /\ call.config_value[1].iso = 3200
    /\ call.config[1] \notin {PRESETS[c] : c \in SkyCondition}
    /\ heap[ret.config[1]].iso = 3200

\* C5: with brightness = 0.3 + 0.7 * phase, adjust_for_phase returns
\* iso = min(3200, 2 * iso) and f_stop = max(2.8, f_stop - 1) when
\* brightness < 0.5 and the iso and f_stop of its argument otherwise, with the
\* shutter and focal length of its argument in both cases; phase 0 is dim and
\* phase 1 is not.
C5_AdjustForPhase ==
    Returned("adjust_for_phase") =>
        LET given == call.config_value[1]
            got == heap[ret.config[1]]
            phase == call.phase[1]
            double == IF 2 * given.iso < 3200 THEN 2 * given.iso ELSE 3200
            opened == IF given.f_stop - 10 > 28 THEN given.f_stop - 10 ELSE 28
        IN  /\ Dim(phase) => got.iso = double /\ got.f_stop = opened
            /\ ~Dim(phase) => got.iso = given.iso /\ got.f_stop = given.f_stop
            /\ got.shutter = given.shutter
            /\ got.focal_length = given.focal_length
            /\ phase.num = 0 => got.iso = double /\ got.f_stop = opened
            /\ phase.num = phase.den =>
                got.iso = given.iso /\ got.f_stop = given.f_stop

\* the Atmospheric preset adjusted at phase 0
C5_Witness ==
    /\ Returned("adjust_for_phase")
    /\ call.phase[1].num = 0
    /\ call.config_value[1] = CameraConfig(400, 56, Rat(1, 200), 250)
    /\ heap[ret.config[1]] = CameraConfig(800, 46, Rat(1, 200), 250)

\* C6: the preset table always holds its four initial values, and the
\* camera_config of every ShootingPlan is an object other than the entries of
\* the preset table, also when the adjustment changed no field.
C6_PresetsUnchanged ==
    /\ PRESETS = [clear |-> 1, atmospheric |-> 2, low_horizon |-> 3, deep_sky |-> 4]
    /\ heap[PRESETS["clear"]] = CameraConfig(200, 80, Rat(1, 125), 300)
    /\ heap[PRESETS["atmospheric"]] = CameraConfig(400, 56, Rat(1, 200), 250)
    /\ heap[PRESETS["low_horizon"]] = CameraConfig(800, 40, Rat(1, 160), 400)
    /\ heap[PRESETS["deep_sky"]] = CameraConfig(1600, 28, Rat(30, 1), 50)
    /\ \A plan \in Plans : \A c \in SkyCondition : plan.camera_config # PRESETS[c]

\* a sequence whose second plan has the fields of the Clear preset, unchanged
C6_Witness ==
    /\ Returned("generate_sequence")
    /\ Len(ret.plans) = 2
    /\ heap[ret.plans[2].camera_config] = heap[PRESETS["clear"]]
    /\ ret.plans[2].camera_config # PRESETS["clear"]
    /\ ~Dim(ret.plans[2].celestial_data.phase)

\* C8: export_session_data(duration_minutes), duration_minutes >= 0, returns
\* a record whose summary counts the entries of shooting_sequence, gives the
\* least and greatest elevation of the sequence and counts the plans above
\* 30 degrees.
C8_ExportCompletes ==
    (Returned("export_session_data") /\ call.duration_minutes >= 0) =>
        /\ ret.kind = "export"
        /\ LET record == ret.export[1]
               shown == {record.shooting_sequence[k].elevation :
                            k \in 1..Len(record.shooting_sequence)}
           IN  /\ record.summary.total_positions = Len(record.shooting_sequence)
               /\ record.summary.elevation_range[1] \in shown
               /\ record.summary.elevation_range[2] \in shown
               /\ \A x \in shown : /\ record.summary.elevation_range[1] <= x
                                   /\ x <= record.summary.elevation_range[2]
               /\ record.summary.optimal_shots <= record.summary.total_positions

\* what the code does at duration 0: min() of the empty sequence raises
C8_ValueError ==
    /\ Returned("export_session_data")
    /\ call.duration_minutes = 0
    /\ ret.kind = "error"
    /\ ret.error = "ValueError"

\* C10: every CelestialData of get_lunar_data has its elevation in
\* [24.872, 35.128]; every plan has condition Atmospheric or Clear, a
\* camera_config derived from the Atmospheric or the Clear preset, and an
\* atmospheric compensation term of 0.5 or 0.0.
C10_ElevationBand ==
    /\ \A data \in {ret.data[k] : k \in 1..Len(ret.data)}
                   \cup {plan.celestial_data : plan \in Plans} :
        /\ RatLe(Rat(24872, 1000), data.position.elevation)
        /\ RatLe(data.position.elevation, Rat(35128, 1000))
        /\ condition(data.position.elevation) \in {"atmospheric", "clear"}
    /\ \A plan \in Plans :
        LET phase == plan.celestial_data.phase
            term == RatAdd(plan.exposure_comp,
                           Rat(25 * phase.num - 15 * phase.den, 10 * phase.den))
        IN  /\ heap[plan.camera_config] \in
                    {CameraConfig(200, 80, Rat(1, 125), 300),
                     CameraConfig(400, 70, Rat(1, 125), 300),
                     CameraConfig(400, 56, Rat(1, 200), 250),
                     CameraConfig(800, 46, Rat(1, 200), 250)}
            /\ RatEq(term, Rat(1, 2)) \/ RatEq(term, Rat(0, 1))

\* a plan at the lowest elevation, 24.872 degrees, under a dim moon
C10_Witness ==
    /\ Returned("create_shooting_plan")
    /\ RatEq(ret.plans[1].celestial_data.position.elevation, Rat(24872, 1000))
    /\ heap[ret.plans[1].camera_config] = CameraConfig(800, 46, Rat(1, 200), 250)
    /\ RatEq(ret.plans[1].exposure_comp, Rat(2, 1))

====
